---- MODULE Spec2Model ----
(***************************************************************************)
(* Model of src/refactorizor.py: Refactorizor.execute and the three steps  *)
(* of PythonJavaScriptRefactorizor (apply_changes, update_codebase_md,     *)
(* commit_changes) acting on a working tree and a git repository.          *)
(*                                                                         *)
(* Text is a sequence of tokens.  File contents, patterns, replacements    *)
(* and appended content are sequences over a small alphabet of one-letter  *)
(* tokens; the texts the code itself writes (the changelog header, the     *)
(* bullet prefix, the commit preamble, newlines) are tokens of their own.  *)
(* Patterns are literal (a regular expression without metacharacters) and  *)
(* replacements contain no backslash, so re.sub's template expansion       *)
(* leaves them as they are.                                                *)
(***************************************************************************)
EXTENDS Naturals, Sequences, FiniteSets

\* ---------------------------------------------------------------- bounds
MaxChanges == 2
MaxFileLen == 3
MaxPatLen == 2
MaxRepLen == 1
MaxContentLen == 1

\* ------------------------------------------------------------- vocabulary
Alphabet == {"a", "b"}
PipeTexts == {<<>>, <<"a">>}
Descriptions == {"d1", "d2"}

CODEBASE_MD == "CODEBASE.md"
SourceFile == "a.py"
Paths == {SourceFile, CODEBASE_MD}

Header == "\n\n## Recent Changes\n\n"
BulletPrefix == "- "
NL == "\n"
Preamble == "Refactorizor script applied with the following changes:"

None == "None"
NoValue == <<>>
NoneValue == <<None>>
CommitId(n) == <<"commit", n>>
FileNotFound == "FileNotFound"
PatternNotMatched == "PatternNotMatched"
UnknownChangeType == "UnknownChangeType"
DocumentationWriteError == "DocumentationWriteError"
CommitError == "CommitError"
ApplyErrors == {FileNotFound, PatternNotMatched, UnknownChangeType}

Str(n) == UNION {[1..k -> Alphabet] : k \in 0..n}

\* ------------------------------------------------------------------ state
VARIABLES changes, fs, i, pc, err, ret, staged, commits, events, fs0, fsPrev

vars == <<changes, fs, i, pc, err, ret, staged, commits, events, fs0, fsPrev>>

\* ------------------------------------------------------------- filesystem
Exists(f, p) == p \in DOMAIN f

WriteFile(f, p, text) == [q \in (DOMAIN f) \cup {p} |-> IF q = p THEN text ELSE f[q]]

AppendSep(f, p, text) == WriteFile(f, p, (IF Exists(f, p) THEN f[p] ELSE <<>>) \o <<NL>> \o text)

AppendFile(f, p, text) == WriteFile(f, p, (IF Exists(f, p) THEN f[p] ELSE <<>>) \o text)

\* ----------------------------------------------------------------- re.sub
StartsWith(text, pat) == Len(pat) <= Len(text) /\ SubSeq(text, 1, Len(pat)) = pat

RECURSIVE SubFirst(_, _, _)
SubFirst(pat, rep, text) ==
  IF text = <<>> THEN (IF pat = <<>> THEN rep ELSE <<>>)
  ELSE IF StartsWith(text, pat) THEN rep \o SubSeq(text, Len(pat) + 1, Len(text))
  ELSE <<Head(text)>> \o SubFirst(pat, rep, Tail(text))

RECURSIVE SubOrAdd(_, _, _)
SubOrAdd(pat, rep, text) ==
  IF text = <<>> THEN rep
  ELSE IF pat = <<>> THEN rep \o <<Head(text)>> \o SubOrAdd(pat, rep, Tail(text))
  ELSE IF StartsWith(text, pat) THEN rep \o SubOrAdd(pat, rep, SubSeq(text, Len(pat) + 1, Len(text)))
  ELSE <<Head(text)>> \o SubOrAdd(pat, rep, Tail(text))

RECURSIVE Sub(_, _, _)
Sub(pat, rep, text) ==
  IF text = <<>> THEN (IF pat = <<>> THEN rep ELSE <<>>)
  ELSE IF pat = <<>> THEN rep \o <<Head(text)>> \o Sub(pat, rep, Tail(text))
  ELSE IF StartsWith(text, pat) THEN rep \o Sub(pat, rep, SubSeq(text, Len(pat) + 1, Len(text)))
  ELSE <<Head(text)>> \o Sub(pat, rep, Tail(text))

\* ---------------------------------------------------------- apply_changes
Outcome(f, e) == [fs |-> f, err |-> e]

ApplyNoCompare(f, ch) ==
  LET t == ch.target_file IN
  IF ~Exists(f, t) THEN Outcome(f, FileNotFound)
  ELSE IF ch.change_type = "append" THEN Outcome(AppendFile(f, t, ch.content), None)
  ELSE IF ch.change_type = "replace" THEN
    Outcome(WriteFile(f, t, Sub(ch.search_pattern, ch.replacement, f[t])), None)
  ELSE Outcome(f, UnknownChangeType)

ApplyTruncating(f, ch) ==
  LET t == ch.target_file IN
  IF ~Exists(f, t) THEN Outcome(f, FileNotFound)
  ELSE IF ch.change_type = "append" THEN Outcome(AppendFile(f, t, ch.content), None)
  ELSE IF ch.change_type = "replace" THEN
    LET content == f[t]
        updated_content == Sub(ch.search_pattern, ch.replacement, content)
    IN IF updated_content = content THEN Outcome(WriteFile(f, t, <<>>), PatternNotMatched)
       ELSE Outcome(WriteFile(f, t, updated_content), None)
  ELSE Outcome(f, UnknownChangeType)

ApplyTypeFirst(f, ch) ==
  LET t == ch.target_file IN
  IF ch.change_type \notin {"append", "replace"} THEN Outcome(f, UnknownChangeType)
  ELSE IF ~Exists(f, t) THEN Outcome(f, FileNotFound)
  ELSE IF ch.change_type = "append" THEN Outcome(AppendFile(f, t, ch.content), None)
  ELSE
    LET content == f[t]
        updated_content == Sub(ch.search_pattern, ch.replacement, content)
    IN IF updated_content = content THEN Outcome(f, PatternNotMatched)
       ELSE Outcome(WriteFile(f, t, updated_content), None)

ApplyChange(f, ch) ==
  LET t == ch.target_file IN
  IF ~Exists(f, t) THEN Outcome(f, FileNotFound)
  ELSE IF ch.change_type = "append" THEN Outcome(AppendFile(f, t, ch.content), None)
  ELSE IF ch.change_type = "replace" THEN
    LET content == f[t]
        updated_content == Sub(ch.search_pattern, ch.replacement, content)
    IN IF updated_content = content THEN Outcome(f, PatternNotMatched)
       ELSE Outcome(WriteFile(f, t, updated_content), None)
  ELSE Outcome(f, UnknownChangeType)

\* ----------------------------------------------------- update_codebase_md
RECURSIVE BulletsReversed(_)
BulletsReversed(chs) ==
  IF chs = <<>> THEN <<>>
  ELSE BulletsReversed(Tail(chs)) \o <<BulletPrefix, Head(chs).description, NL>>

RECURSIVE Bullets(_)
Bullets(chs) ==
  IF chs = <<>> THEN <<>>
  ELSE <<BulletPrefix, Head(chs).description, NL>> \o Bullets(Tail(chs))

ChangelogEntry(chs) == <<Header>> \o Bullets(chs)

\* --------------------------------------------------------- commit_changes
RECURSIVE Join(_, _)
Join(sep, items) ==
  IF items = <<>> THEN <<>>
  ELSE IF Len(items) = 1 THEN <<items[1]>>
  ELSE <<items[1], sep>> \o Join(sep, Tail(items))

DescriptionsOf(chs) == [k \in 1..Len(chs) |-> chs[k].description]

StagedPaths(chs) == {CODEBASE_MD} \cup {chs[k].target_file : k \in 1..Len(chs)}

CommitMessageFirstOnly(chs) ==
  <<Preamble, NL>> \o (IF chs = <<>> THEN <<>> ELSE <<chs[1].description>>)

CommitMessage(chs) == <<Preamble, NL>> \o Join(NL, DescriptionsOf(chs))

\* ---------------------------------------------------------------- execute
AfterApplyFirstOnly(k) == "document"

AfterApply(k) == IF k > Len(changes) THEN "document" ELSE "apply"

ExecuteReturnCommit(c) == CommitId(c)

ExecuteReturn(c) == NoneValue

\* ------------------------------------------------------------------- Init
Change(t, ty, d, c, p, r) ==
  [target_file |-> t, change_type |-> ty, description |-> d,
   content |-> c, search_pattern |-> p, replacement |-> r]

ChangesOver(contents, patterns, replacements) ==
  {Change(t, "append", d, c, <<>>, <<>>) : t \in Paths, d \in Descriptions, c \in contents}
  \cup {Change(tp[1], "replace", tp[2], <<>>, pr[1], pr[2]) :
          tp \in Paths \X Descriptions, pr \in patterns \X replacements}
  \cup {Change(t, "delete", d, <<>>, <<>>, <<>>) : t \in Paths, d \in Descriptions}

Trees(sources, logs) ==
  {f \in UNION {[D -> sources \cup logs] : D \in SUBSET Paths} :
     /\ SourceFile \in DOMAIN f => f[SourceFile] \in sources
     /\ CODEBASE_MD \in DOMAIN f => f[CODEBASE_MD] \in logs}

InitWith(sets, trees) ==
  /\ changes \in sets
  /\ fs \in trees
  /\ fs0 = fs
  /\ fsPrev = fs
  /\ i = 1
  /\ pc = (IF changes = <<>> THEN "document" ELSE "apply")
  /\ err = None
  /\ ret = NoValue
  /\ staged = {}
  /\ commits = <<>>
  /\ events = <<>>

PipeChanges == ChangesOver(PipeTexts, PipeTexts, PipeTexts)

PipeChangeSets == UNION {[1..n -> PipeChanges] : n \in 0..MaxChanges}

Init == InitWith(PipeChangeSets, Trees(PipeTexts, PipeTexts))

TextChanges == ChangesOver(Str(MaxContentLen), Str(MaxPatLen), Str(MaxRepLen))

InitApply == InitWith({<<>>} \cup {<<ch>> : ch \in TextChanges}, Trees(Str(MaxFileLen), PipeTexts))

\* ---------------------------------------------------------------- actions
ApplyChanges ==
  /\ pc = "apply"
  /\ LET out == ApplyChange(fs, changes[i]) IN
       /\ out.err = None
       /\ fs' = out.fs
  /\ fsPrev' = fs
  /\ i' = i + 1
  /\ pc' = AfterApply(i + 1)
  /\ events' = Append(events, "apply")
  /\ UNCHANGED <<changes, err, ret, staged, commits, fs0>>

ApplyChangesRaise ==
  /\ pc = "apply"
  /\ LET out == ApplyChange(fs, changes[i]) IN
       /\ out.err # None
       /\ fs' = out.fs
       /\ err' = out.err
  /\ fsPrev' = fs
  /\ pc' = "failed"
  /\ events' = Append(events, "apply")
  /\ UNCHANGED <<changes, i, ret, staged, commits, fs0>>

UpdateCodebaseMd ==
  /\ pc = "document"
  /\ fs' = AppendFile(fs, CODEBASE_MD, ChangelogEntry(changes))
  /\ fsPrev' = fs
  /\ pc' = "commit"
  /\ events' = Append(events, "document")
  /\ UNCHANGED <<changes, i, err, ret, staged, commits, fs0>>

UpdateCodebaseMdRaise ==
  /\ pc = "document"
  /\ \/ UNCHANGED fs
     \/ \E n \in 0..Len(ChangelogEntry(changes)) :
          fs' = AppendFile(fs, CODEBASE_MD, SubSeq(ChangelogEntry(changes), 1, n))
  /\ fsPrev' = fs
  /\ err' = DocumentationWriteError
  /\ pc' = "failed"
  /\ events' = Append(events, "document")
  /\ UNCHANGED <<changes, i, ret, staged, commits, fs0>>

CommitChanges ==
  /\ pc = "commit"
  /\ staged' = StagedPaths(changes)
  /\ commits' = Append(commits, [message |-> CommitMessage(changes), paths |-> StagedPaths(changes)])
  /\ ret' = ExecuteReturn(Len(commits) + 1)
  /\ fsPrev' = fs
  /\ pc' = "done"
  /\ events' = Append(events, "commit")
  /\ UNCHANGED <<changes, fs, i, err, fs0>>

CommitChangesRaise ==
  /\ pc = "commit"
  /\ staged' \in {staged, StagedPaths(changes)}
  /\ err' = CommitError
  /\ fsPrev' = fs
  /\ pc' = "failed"
  /\ events' = Append(events, "commit")
  /\ UNCHANGED <<changes, fs, i, ret, commits, fs0>>

Next ==
  \/ ApplyChanges
  \/ ApplyChangesRaise
  \/ UpdateCodebaseMd
  \/ UpdateCodebaseMdRaise
  \/ CommitChanges
  \/ CommitChangesRaise

Spec == Init /\ [][Next]_vars

SpecApply == InitApply /\ [][Next]_vars

\* ------------------------------------------------------ derived notions
Last(s) == s[Len(s)]

Contains(text, pat) ==
  /\ Len(pat) <= Len(text)
  /\ \E s \in 0..(Len(text) - Len(pat)) : \A j \in 1..Len(pat) : text[s + j] = pat[j]

Tokens(text) == {text[j] : j \in 1..Len(text)}

\* The last step was a call of apply_changes; Attempted is the change it was given.
JustApplied == events # <<>> /\ Last(events) = "apply" /\ pc \in {"apply", "document", "failed"}

Attempted == changes[Len(events)]

AppliedOk == JustApplied /\ err = None

AppliedFailed == JustApplied /\ pc = "failed"

\* The tree after changes 1..n were applied to f one after the other.
RECURSIVE ApplyAll(_, _, _)
ApplyAll(f, chs, n) == IF n = 0 THEN f ELSE ApplyChange(ApplyAll(f, chs, n - 1), chs[n]).fs

Expected == [k \in 1..(Len(changes) + 2) |->
               IF k <= Len(changes) THEN "apply"
               ELSE IF k = Len(changes) + 1 THEN "document" ELSE "commit"]

IsPrefix(s, t) == Len(s) <= Len(t) /\ \A k \in 1..Len(s) : s[k] = t[k]

ContentOf(f, p) == IF Exists(f, p) THEN f[p] ELSE <<>>

\* Python's str.splitlines on a token sequence: cut at every newline token.
RECURSIVE SplitLines(_)
SplitLines(text) ==
  IF text = <<>> THEN <<>>
  ELSE LET cut == IF \E j \in 1..Len(text) : text[j] = NL
                  THEN CHOOSE j \in 1..Len(text) : text[j] = NL /\ \A m \in 1..(j - 1) : text[m] # NL
                  ELSE Len(text) + 1
       IN <<SubSeq(text, 1, cut - 1)>> \o SplitLines(SubSeq(text, cut + 1, Len(text)))

\* Number of occurrences found scanning left to right without overlap.
RECURSIVE Occurrences(_, _)
Occurrences(text, pat) ==
  IF pat = <<>> \/ Len(text) < Len(pat) THEN 0
  ELSE IF \A j \in 1..Len(pat) : text[j] = pat[j]
       THEN 1 + Occurrences(SubSeq(text, Len(pat) + 1, Len(text)), pat)
       ELSE Occurrences(Tail(text), pat)

\* ----------------------------------------------------------------- claims

\* C1: the phases of execute() run in the order apply-all, document, commit.
\* The changelog is written only once every change has been applied without
\* error, the commit is created only once the changelog write has succeeded,
\* and no step is taken after the first error (or after the run has ended).
C1_PhaseOrder ==
  [][ /\ err = None
      /\ pc \notin {"done", "failed"}
      /\ IsPrefix(events', Expected)
      /\ (\/ Last(events') = "document"
          \/ (Last(events') # "apply" /\ ContentOf(fs', CODEBASE_MD) # ContentOf(fs, CODEBASE_MD)))
           => /\ Len(events) = Len(changes)
              /\ i = Len(changes) + 1
              /\ fs = ApplyAll(fs0, changes, Len(changes))
      /\ (Last(events') = "commit" \/ commits' # commits \/ staged' # staged)
           => /\ Len(events) = Len(changes) + 1
              /\ Last(events) = "document"
              /\ fs[CODEBASE_MD] = ContentOf(fsPrev, CODEBASE_MD) \o ChangelogEntry(changes)
    ]_vars

C1_Witness ==
  /\ pc = "done"
  /\ Len(changes) = 2
  /\ events = <<"apply", "apply", "document", "commit">>

\* C2: a replace whose pattern occurs nowhere in its (existing) target file
\* fails with PatternNotMatched and leaves the tree, the target file included,
\* exactly as it was before that change was attempted.
C2_NoMatchRejected ==
  (/\ JustApplied
   /\ Attempted.change_type = "replace"
   /\ Exists(fsPrev, Attempted.target_file)
   /\ ~Contains(fsPrev[Attempted.target_file], Attempted.search_pattern))
  => /\ pc = "failed"
     /\ err = PatternNotMatched
     /\ fs = fsPrev

C2_Witness ==
  /\ AppliedFailed
  /\ Attempted.change_type = "replace"
  /\ Exists(fsPrev, Attempted.target_file)
  /\ fsPrev[Attempted.target_file] # <<>>
  /\ Attempted.replacement # <<>>
  /\ ~Contains(fsPrev[Attempted.target_file], Attempted.search_pattern)
  /\ err = PatternNotMatched

\* C3 as stated: when change k fails in the apply phase, changes 1..k-1 stay
\* on disk as applied, the failing change modifies nothing, the changelog file
\* is unchanged since the start of the run, nothing is staged or committed,
\* and a failure at position 1 leaves the whole tree as it was.
C3_AsStated ==
  (pc = "failed" /\ err \in ApplyErrors)
  => /\ fs = ApplyAll(fs0, changes, i - 1)
     /\ fs = fsPrev
     /\ Exists(fs, CODEBASE_MD) = Exists(fs0, CODEBASE_MD)
     /\ ContentOf(fs, CODEBASE_MD) = ContentOf(fs0, CODEBASE_MD)
     /\ commits = <<>> /\ staged = {}
     /\ (i = 1 => fs = fs0)

\* C3 amended: as above, except that the changelog file holds what changes
\* 1..k-1 themselves wrote to it: it receives no "Recent Changes" entry, and
\* it is unchanged since the start of the run when none of the changes 1..k-1
\* targets it.
C3_PartialApply ==
  (pc = "failed" /\ err \in ApplyErrors)
  => /\ Len(events) = i
     /\ fs = ApplyAll(fs0, changes, i - 1)
     /\ fs = fsPrev
     /\ ((\A k \in 1..(i - 1) : changes[k].target_file # CODEBASE_MD)
           => /\ Exists(fs, CODEBASE_MD) = Exists(fs0, CODEBASE_MD)
              /\ ContentOf(fs, CODEBASE_MD) = ContentOf(fs0, CODEBASE_MD))
     /\ Header \notin (Tokens(ContentOf(fs, CODEBASE_MD)) \ Tokens(ContentOf(fs0, CODEBASE_MD)))
     /\ commits = <<>> /\ staged = {}
     /\ (i = 1 => fs = fs0)

C3_Witness ==
  /\ pc = "failed"
  /\ err = PatternNotMatched
  /\ i = 2
  /\ changes[1].target_file = CODEBASE_MD
  /\ fs # fs0
  /\ fs = fsPrev

\* C4: an append to an existing file leaves that file holding its previous
\* contents followed by exactly the change's content, and every other file
\* (and the set of files) as it was.
C4_AppendExact ==
  (AppliedOk /\ Attempted.change_type = "append")
  => /\ DOMAIN fs = DOMAIN fsPrev
     /\ Exists(fsPrev, Attempted.target_file)
     /\ fs[Attempted.target_file] = fsPrev[Attempted.target_file] \o Attempted.content
     /\ \A p \in DOMAIN fs : p # Attempted.target_file => fs[p] = fsPrev[p]

C4_Witness ==
  /\ AppliedOk
  /\ Attempted.change_type = "append"
  /\ Attempted.target_file = SourceFile
  /\ Attempted.content # <<>>
  /\ fsPrev[SourceFile] # <<>>
  /\ Exists(fs, CODEBASE_MD)

C6_AsStated ==
  (JustApplied /\ Attempted.change_type \notin {"append", "replace"})
  => /\ pc = "failed"
     /\ err = UnknownChangeType
     /\ fs = fsPrev

\* C6 amended: a change of unknown type touches no file and fails: with
\* UnknownChangeType when its target file exists, and with FileNotFound when
\* it does not (the existence check comes first).
C6_UnknownType ==
  (JustApplied /\ Attempted.change_type \notin {"append", "replace"})
  => /\ pc = "failed"
     /\ err = (IF Exists(fsPrev, Attempted.target_file) THEN UnknownChangeType ELSE FileNotFound)
     /\ fs = fsPrev

C6_Witness ==
  /\ AppliedFailed
  /\ Attempted.change_type = "delete"
  /\ ~Exists(fsPrev, Attempted.target_file)
  /\ err = FileNotFound

\* C7: a run that succeeds has created exactly one commit, whose message is
\* the preamble line followed by one line per change description in the order
\* of the ChangeSet; until then, and in a run that fails, there is no commit.
C7_OneCommit ==
  /\ pc = "done" =>
       /\ Len(commits) = 1
       /\ SplitLines(commits[1].message)
            = <<<<Preamble>>>> \o [k \in 1..Len(changes) |-> <<changes[k].description>>]
  /\ pc # "done" => commits = <<>>

C7_Witness ==
  /\ pc = "done"
  /\ Len(changes) = 2
  /\ changes[1].description = "d2"
  /\ changes[2].description = "d1"
  /\ Len(commits) = 1

\* C8 as stated: a run that succeeds returns the identifier of the commit it
\* created.
C8_AsStated == pc = "done" => ret = CommitId(Len(commits))

\* C8 amended: a run that succeeds has created its commit and returns no
\* value (None) rather than the commit's identifier; a run that fails returns
\* nothing and surfaces its error to the caller.
C8_Result ==
  /\ pc = "done" => (ret = NoneValue /\ err = None /\ Len(commits) = 1)
  /\ pc = "failed" => (ret = NoValue /\ err # None /\ commits = <<>>)
  /\ pc \notin {"done", "failed"} => (ret = NoValue /\ err = None)

C8_Witness == pc = "done" /\ ret = NoneValue /\ Len(commits) = 1 /\ changes # <<>>

\* C9: the document phase leaves the changelog file holding its earlier
\* contents followed by the section header and then, for each change of the
\* ChangeSet in order, one bullet line carrying that change's description;
\* it touches no other file.
C9_Changelog ==
  (events # <<>> /\ Last(events) = "document" /\ err = None)
  => LET old == ContentOf(fsPrev, CODEBASE_MD)
         new == fs[CODEBASE_MD]
     IN /\ Len(events) = Len(changes) + 1
        /\ Len(new) = Len(old) + 1 + 3 * Len(changes)
        /\ SubSeq(new, 1, Len(old)) = old
        /\ new[Len(old) + 1] = Header
        /\ \A k \in 1..Len(changes) :
             SubSeq(new, Len(old) + 3 * k - 1, Len(old) + 3 * k + 1)
               = <<BulletPrefix, changes[k].description, NL>>
        /\ \A p \in Paths \ {CODEBASE_MD} :
             Exists(fs, p) = Exists(fsPrev, p) /\ (Exists(fs, p) => fs[p] = fsPrev[p])

C9_Witness ==
  /\ events # <<>> /\ Last(events) = "document" /\ err = None
  /\ Len(changes) = 2
  /\ changes[1].description = "d2"
  /\ changes[2].description = "d1"
  /\ changes[1].target_file = changes[2].target_file
  /\ ContentOf(fsPrev, CODEBASE_MD) # <<>>

\* C10: a replace that succeeds leaves its target file different from what it
\* was; a replace whose substitution gives back the original text is rejected
\* with PatternNotMatched and writes nothing, also when the pattern does occur
\* and the replacement equals the matched text.
C10_ReplaceChanges ==
  (JustApplied /\ Attempted.change_type = "replace" /\ Exists(fsPrev, Attempted.target_file))
  => LET old == fsPrev[Attempted.target_file]
         same == Sub(Attempted.search_pattern, Attempted.replacement, old) = old
     IN /\ err = None => fs[Attempted.target_file] # old
        /\ (same \/ Attempted.replacement = Attempted.search_pattern)
             => (pc = "failed" /\ err = PatternNotMatched /\ fs = fsPrev)

C10_Witness ==
  /\ AppliedFailed
  /\ Attempted.change_type = "replace"
  /\ Attempted.search_pattern # <<>>
  /\ Attempted.replacement = Attempted.search_pattern
  /\ Exists(fsPrev, Attempted.target_file)
  /\ Contains(fsPrev[Attempted.target_file], Attempted.search_pattern)
  /\ err = PatternNotMatched
====
